---- MODULE Spec2Model ----
(***************************************************************************)
(* okPushy2.py: the OkPushyTool dragger tool (class OkPushyTool and the    *)
(* two hotkey entry points) together with the part of the Maya host it     *)
(* talks to: the current tool context, the dragger context's anchor/drag   *)
(* point and modifier, the scene (world positions and scales), the undo    *)
(* chunk nesting and the calls the tool issues.                            *)
(*                                                                         *)
(* Numbers: Python floats are modelled as rationals <<n, d>> in lowest      *)
(* terms with d > 0; vectors (om.MVector) are triples of rationals.  Under *)
(* Spec every arithmetic result is exact (floatBits = 0); under SpecFloat  *)
(* every arithmetic result is rounded to MantissaBits significant bits,    *)
(* ties to even, the way a binary float of that width rounds.              *)
(***************************************************************************)
EXTENDS Integers, Sequences, FiniteSets, TLC

\* The width of the float significand; 0 stands for exact arithmetic.
VARIABLE floatBits

(***************************************************************************)
(* Bounds of the model.                                                    *)
(***************************************************************************)
\* Number of mouse events (press, drag, release) delivered in one behaviour.
MaxEvents == 3
\* Significant bits of a float under SpecFloat.
MantissaBits == 4

(***************************************************************************)
(* Rational arithmetic (Python float arithmetic, taken exactly).           *)
(***************************************************************************)
Abs(x) == IF x < 0 THEN -x ELSE x

RECURSIVE Gcd(_, _)
RECURSIVE Pow2(_)
Gcd(a, b) == IF b = 0 THEN a ELSE Gcd(b, a % b)

\* The rational n/d in lowest terms, sign carried by the numerator.
Rat(n, d) ==
    LET g == Gcd(Abs(n), Abs(d))
        s == IF d < 0 THEN -1 ELSE 1
    IN  <<(s * n) \div g, (s * d) \div g>>

R(n) == <<n, 1>>

Pow2(k) == IF k = 0 THEN 1 ELSE 2 * Pow2(k - 1)

\* a/d scaled by a power of two into [lo, 2 * lo): <<a', d'>>, where either
\* d' is d doubled some times or a' is a doubled some times.
RECURSIVE ScaleIntoRange(_, _, _)
ScaleIntoRange(a, d, lo) ==
    IF a >= 2 * lo * d THEN ScaleIntoRange(a, 2 * d, lo)
    ELSE IF a < lo * d THEN ScaleIntoRange(2 * a, d, lo)
    ELSE <<a, d>>

\* The nearest integer to a/d, ties to even.
NearestEven(a, d) ==
    LET q == a \div d
        r == a % d
    IN  IF 2 * r > d THEN q + 1
        ELSE IF 2 * r < d THEN q
        ELSE IF q % 2 = 0 THEN q ELSE q + 1

\* A float arithmetic result: exact when floatBits = 0, else the nearest
\* number with floatBits significant bits.
Round(x) ==
    IF floatBits = 0 \/ x[1] = 0 THEN x
    ELSE LET a == Abs(x[1])
             s == ScaleIntoRange(a, x[2], Pow2(floatBits - 1))
             m == NearestEven(s[1], s[2])
         IN  Rat((IF x[1] < 0 THEN -1 ELSE 1) * m * (s[2] \div x[2]), s[1] \div a)

RAdd(a, b) == Round(Rat(a[1] * b[2] + b[1] * a[2], a[2] * b[2]))
RSub(a, b) == Round(Rat(a[1] * b[2] - b[1] * a[2], a[2] * b[2]))
RMul(a, b) == Round(Rat(a[1] * b[1], a[2] * b[2]))
RDiv(a, b) == Round(Rat(a[1] * b[2], a[2] * b[1]))
RLess(a, b) == a[1] * b[2] < b[1] * a[2]
RMin(a, b) == IF RLess(b, a) THEN b ELSE a
RMax(a, b) == IF RLess(a, b) THEN b ELSE a

\* om.MVector and its operators.
Vec(x, y, z) == <<R(x), R(y), R(z)>>
MVector == Vec(0, 0, 0)
VAdd(u, v) == [k \in 1..3 |-> RAdd(u[k], v[k])]
VSub(u, v) == [k \in 1..3 |-> RSub(u[k], v[k])]
VScale(u, r) == [k \in 1..3 |-> RMul(u[k], r)]

\* MVector.normal(): the unit vector of u.  Exact for the vectors the model's
\* cameras have (at most one non-zero component); the zero vector stays zero.
VNormal(u) ==
    IF Cardinality({k \in 1..3 : u[k][1] # 0}) = 1
    THEN [k \in 1..3 |-> IF u[k][1] > 0 THEN R(1) ELSE IF u[k][1] < 0 THEN R(-1) ELSE R(0)]
    ELSE u


(***************************************************************************)
(* Identifiers.  cmds.ls(long=True, flatten=True) returns strings such as  *)
(* "|locator1" or "|pPlane1.vtx[2]"; an identifier is kept as its node     *)
(* path, its component suffix ("" for a plain node path; a long node path  *)
(* never holds a '.') and its component index.                             *)
(***************************************************************************)
Node(p) == [path |-> p, suffix |-> "", index |-> 0]
Vtx(i) == [path |-> "|pPlane1", suffix |-> ".vtx[", index |-> i]
Edge(i) == [path |-> "|pPlane1", suffix |-> ".e[", index |-> i]
Face(i) == [path |-> "|pPlane1", suffix |-> ".f[", index |-> i]

\* The scene: one polygon mesh |pPlane1 (two triangles on four vertices),
\* two locators (transforms without polygons) and a locator's shape node.
MeshVertices == 0..3
FaceVertices(i) == IF i = 0 THEN {0, 1, 2} ELSE {1, 2, 3}
EdgeVertices(i) == IF i = 0 THEN {0, 1} ELSE IF i = 1 THEN {1, 2} ELSE {2, 3}
Transforms == {"|locator1", "|locator2"}
ShapeNodes == {"|locator1|locatorShape1", "|locator2|locatorShape2"}
ShapesOf(p) ==
    IF p = "|locator1" THEN <<"|locator1|locatorShape1">>
    ELSE IF p = "|locator2" THEN <<"|locator2|locatorShape2">>
    ELSE << >>
TransformOf(p) ==
    IF p = "|locator1|locatorShape1" THEN "|locator1"
    ELSE IF p = "|locator2|locatorShape2" THEN "|locator2"
    ELSE p

\* Everything cmds.move / cmds.xform is applied to in the model.
Movables == {Vtx(i) : i \in MeshVertices} \cup {Node(p) : p \in Transforms}

\* The selections the user may hold when the mouse is pressed.
Selections ==
    { << >>,
      <<Vtx(1), Vtx(0)>>,
      <<Vtx(1), Face(0)>>,
      <<Vtx(3), Edge(0)>>,
      <<Node("|locator1"), Vtx(0)>>,
      <<Node("|locator2"), Node("|locator1|locatorShape1"), Node("|locator1")>>,
      <<Node("|locator1|locatorShape1")>> }

\* The panels that may have focus (cmds.getPanel(withFocus=True); "" is no
\* panel), their type and the camera a model panel looks through.
Panels == {"", "outlinerPanel1", "modelPanel1", "modelPanel4"}
PanelType(panel) ==
    IF panel \in {"modelPanel1", "modelPanel4"} THEN "modelPanel" ELSE "outlinerPanel"
PanelCamera(panel) == IF panel = "modelPanel4" THEN "|persp" ELSE "|side"

\* cmds.getAttr(camShape.orthographic), the camera's world translation and
\* elements 8..10 of its world matrix (its local z axis in world space).
CameraOrthographic(cam) == cam = "|side"
CameraTranslation(cam) == IF cam = "|persp" THEN Vec(0, 0, 10) ELSE Vec(100, 0, 0)
CameraZAxis(cam) == IF cam = "|persp" THEN Vec(0, 0, 1) ELSE Vec(2, 0, 0)

\* Tool contexts of the host, and the modifiers the dragger context reports.
CONTEXT_NAME == "okPushyContext_py"
HostTools == {"selectSuperContext", "scaleSuperContext"}
Modifiers == {"none", "ctrl"}
SENSITIVITY == <<1, 200>>

\* Screen x of the press and of the drag points, and the screen y used.
AnchorXs == {100}
DragXs == {-300, 100, 200}
ScreenYs == {0}
DragYs == {0, 40}

InitialWorldPos ==
    [m \in Movables |->
        IF m = Vtx(0) THEN Vec(0, 0, 0)
        ELSE IF m = Vtx(1) THEN Vec(2, 0, 0)
        ELSE IF m = Vtx(2) THEN Vec(0, 2, 0)
        ELSE IF m = Vtx(3) THEN Vec(2, 2, 1)
        ELSE IF m = Node("|locator1") THEN Vec(0, 0, 0)
        ELSE Vec(4, 0, 2)]
InitialScale ==
    [p \in Transforms |-> IF p = "|locator1" THEN Vec(1, 1, 1) ELSE Vec(2, 1, 1)]


(***************************************************************************)
(* Host scene queries used by on_press.                                    *)
(***************************************************************************)
\* 'x' in item, for the substrings on_press looks for.
HasDot(item) == item.suffix # ""
IsFaceOrEdge(item) == item.suffix = ".f[" \/ item.suffix = ".e["

\* The vertices of the mesh a selected item stands for (a node that holds no
\* polygons has none).
VerticesOf(item) ==
    IF item.suffix = ".vtx[" THEN {item.index}
    ELSE IF item.suffix = ".f[" THEN FaceVertices(item.index)
    ELSE IF item.suffix = ".e[" THEN EdgeVertices(item.index)
    ELSE {}

SetMin(S) == CHOOSE x \in S : \A y \in S : x <= y
RunEnd(S, lo) == CHOOSE h \in S : h >= lo /\ (lo..h) \subseteq S /\ (h + 1) \notin S

\* The maximal index runs of a set of vertex indices, ascending
\* ("|pPlane1.vtx[0:2]", "|pPlane1.vtx[5]", ...).
RECURSIVE VertexRuns(_)
VertexRuns(S) ==
    IF S = {} THEN << >>
    ELSE LET lo == SetMin(S)
             hi == RunEnd(S, lo)
         IN  <<[path |-> "|pPlane1", suffix |-> ".vtx[", lo |-> lo, hi |-> hi]>>
                 \o VertexRuns(S \ (lo..hi))

\* cmds.polyListComponentConversion(items, toVertex=True): the vertices of all
\* the items, merged, as index runs.
PolyListComponentConversion(items) ==
    VertexRuns(UNION {VerticesOf(items[k]) : k \in DOMAIN items})

\* cmds.ls(runs, flatten=True, long=True): one identifier per vertex.
RECURSIVE LsFlatten(_)
LsFlatten(runs) ==
    IF runs = << >> THEN << >>
    ELSE LET r == Head(runs)
         IN  [k \in 1..(r.hi - r.lo + 1) |-> Vtx(r.lo + k - 1)] \o LsFlatten(Tail(runs))

\* cmds.ls(items, type='transform', long=True): the transform nodes among them.
IsTransform(item) == item.suffix = "" /\ item.path \in Transforms
LsTransforms(items) == SelectSeq(items, IsTransform)

\* cmds.listRelatives(items, shapes=True, noIntermediate=True, fullPath=True).
RECURSIVE ListRelativesShapes(_)
ListRelativesShapes(items) ==
    IF items = << >> THEN << >>
    ELSE LET sh == ShapesOf(Head(items).path)
         IN  [k \in DOMAIN sh |-> Node(sh[k])] \o ListRelativesShapes(Tail(items))

\* World position of what a bounding box encloses: a component's own
\* position, a node's (or its shape's) transform position.
BoxPoint(item, pos) ==
    IF item.suffix = "" THEN pos[Node(TransformOf(item.path))] ELSE pos[item]

RECURSIVE BoxFold(_, _, _, _)
BoxFold(items, pos, lo, hi) ==
    IF items = << >> THEN <<lo, hi>>
    ELSE LET q == BoxPoint(Head(items), pos)
         IN  BoxFold(Tail(items), pos,
                     [k \in 1..3 |-> RMin(lo[k], q[k])],
                     [k \in 1..3 |-> RMax(hi[k], q[k])])

\* cmds.exactWorldBoundingBox(items, ignoreInvisible=True): <<min, max>>, or
\* << >> when the host reports no box.
ExactWorldBoundingBox(items, pos, found) ==
    IF ~found \/ items = << >> THEN << >>
    ELSE LET q == BoxPoint(Head(items), pos)
         IN  BoxFold(Tail(items), pos, q, q)


(***************************************************************************)
(* State.                                                                  *)
(***************************************************************************)
VARIABLES
    ok_pushy_tool_instance, \* "None" or "OkPushyTool": the module's global
    self,                   \* the fields of the OkPushyTool instance
    currentCtx,             \* host: cmds.currentCtx()
    ctxExists,              \* host: the dragger context CONTEXT_NAME exists
    worldPos,               \* host: world translation of every movable
    nodeScale,              \* host: scale of every transform
    undoDepth,              \* host: openChunk calls minus closeChunk calls
    calls,                  \* the host calls issued by the last handler
    lastOp,                 \* the last handler that ran
    locals,                 \* the last handler's locals panel, selection_raw, drag_point
    cycle,                  \* chunk calls of the current press..release cycle
    nEvents                 \* mouse events delivered so far

vars == <<ok_pushy_tool_instance, self, currentCtx, ctxExists, worldPos, nodeScale,
          undoDepth, calls, lastOp, locals, cycle, nEvents, floatBits>>

scene == <<worldPos, nodeScale>>

\* A handler's locals before it assigns them.
NoLocals == [panel |-> "", selection_raw |-> << >>, drag_point |-> << >>]

NoCalls == [opens |-> 0, closes |-> 0, moves |-> << >>, scales |-> << >>, refresh |-> 0]

(***************************************************************************)
(* OkPushyTool.                                                            *)
(***************************************************************************)
\* Variant: only is_ready is cleared.
ResetStateReadyOnly(s) == [s EXCEPT !.is_ready = FALSE]

\* Variant: initial_positions is not cleared.
ResetStateKeepsPositions(s) ==
    [s EXCEPT !.is_ready = FALSE,
              !.selection = << >>,
              !.is_ortho = FALSE,
              !.is_component_mode = FALSE,
              !.scale_compensate = FALSE,
              !.initial_vectors = << >>,
              !.initial_scales = << >>,
              !.camera_pos = MVector,
              !.initial_avg_pos = MVector,
              !.cam_to_avg_vec = MVector,
              !.view_direction = MVector,
              !.anchor_point = <<0, 0>>]

\* _reset_state: every per-drag field back to its cleared value.
ResetState(s) ==
    [s EXCEPT !.is_ready = FALSE,
              !.selection = << >>,
              !.is_ortho = FALSE,
              !.is_component_mode = FALSE,
              !.scale_compensate = FALSE,
              !.initial_positions = << >>,
              !.initial_vectors = << >>,
              !.initial_scales = << >>,
              !.camera_pos = MVector,
              !.initial_avg_pos = MVector,
              !.cam_to_avg_vec = MVector,
              !.view_direction = MVector,
              !.anchor_point = <<0, 0>>]

\* __init__.
NewTool ==
    ResetState([former_context |-> "", is_ready |-> FALSE, selection |-> << >>,
                is_ortho |-> FALSE, is_component_mode |-> FALSE,
                scale_compensate |-> FALSE, initial_positions |-> << >>,
                initial_vectors |-> << >>, initial_scales |-> << >>,
                camera_pos |-> MVector, initial_avg_pos |-> MVector,
                cam_to_avg_vec |-> MVector, view_direction |-> MVector,
                anchor_point |-> <<0, 0>>])

\* Variant: only the face and edge items are converted, the selected vertices
\* are lost.
ConvertFacesAndEdgesOnly(selection_raw) ==
    LsFlatten(PolyListComponentConversion(SelectSeq(selection_raw, IsFaceOrEdge)))

\* on_press, lines 124-125: the whole raw selection converted to vertices.
ConvertSelection(selection_raw) ==
    LsFlatten(PolyListComponentConversion(selection_raw))

\* Variant: a vertex-only selection is converted (merged and re-ordered) too.
ComponentSelectionConverted(selection_raw) ==
    LsFlatten(PolyListComponentConversion(selection_raw))

\* on_press, lines 126-128: a component selection without faces or edges is
\* taken as it is.
ComponentSelection(selection_raw) == selection_raw

\* on_press, lines 115-131: mode classification and target resolution.
ResolveSelection(selection_raw) ==
    LET is_component_mode == \E k \in DOMAIN selection_raw : HasDot(selection_raw[k])
        has_faces_or_edges == \E k \in DOMAIN selection_raw : IsFaceOrEdge(selection_raw[k])
    IN  [is_component_mode |-> is_component_mode,
         selection |->
            IF is_component_mode
            THEN IF has_faces_or_edges
                 THEN ConvertSelection(selection_raw)
                 ELSE ComponentSelection(selection_raw)
            ELSE LsTransforms(selection_raw)]

\* on_press, line 137.
ScaleCompensate(mod, former_context) ==
    mod = "ctrl" \/ former_context = "scaleSuperContext"

\* Variant: the scales are recorded in object mode whether or not compensation
\* was requested.
SnapshotScalesIgnoringFlag(s, scl) ==
    IF ~s.is_component_mode
    THEN [item \in DOMAIN s.initial_scales \cup {s.selection[k] : k \in DOMAIN s.selection} |->
             IF \E k \in DOMAIN s.selection : s.selection[k] = item
             THEN scl[item.path] ELSE s.initial_scales[item]]
    ELSE s.initial_scales

\* on_press, lines 162-165: the scale of every target entered into
\* initial_scales, when compensating in object mode.
SnapshotScales(s, scl) ==
    IF s.scale_compensate /\ ~s.is_component_mode
    THEN [item \in DOMAIN s.initial_scales \cup {s.selection[k] : k \in DOMAIN s.selection} |->
             IF \E k \in DOMAIN s.selection : s.selection[k] = item
             THEN scl[item.path] ELSE s.initial_scales[item]]
    ELSE s.initial_scales

\* on_press, lines 146-149: the orthographic branch.
OrthoSetup(s, cam) ==
    [s EXCEPT !.view_direction = VNormal(VScale(CameraZAxis(cam), R(-1)))]

\* on_press, lines 157-165: the perspective branch once a box was found.
PerspSetup(s, cam, bbox, scl) ==
    LET avg == [k \in 1..3 |-> RDiv(RAdd(bbox[1][k], bbox[2][k]), R(2))]
        cpos == CameraTranslation(cam)
        s1 == [s EXCEPT !.initial_avg_pos = avg,
                        !.camera_pos = cpos,
                        !.cam_to_avg_vec = VSub(avg, cpos),
                        !.initial_vectors =
                            [i \in DOMAIN s.initial_positions |->
                                VSub(s.initial_positions[i], avg)]]
    IN  [s1 EXCEPT !.initial_scales = SnapshotScales(s1, scl)]

\* Variant: an early return that forgets to close the chunk.
EarlyExitNoClose(s) == [state |-> s, closes |-> 0]

\* An early return of on_press: 'cmds.undoInfo(closeChunk=True); return'.
EarlyExit(s) == [state |-> s, closes |-> 1]

\* on_press, lines 167-168.
Arm(s, anchor) ==
    [state |-> [s EXCEPT !.anchor_point = anchor, !.is_ready = TRUE], closes |-> 0]

\* on_press: the instance's fields when the handler returns and the number of
\* closeChunk calls it made (it always makes one openChunk call, line 100).
OnPress(s, panel, selection_raw, mod, anchor, bboxFound, pos, scl) ==
    LET s0 == ResetState(s)
        cam == PanelCamera(panel)
        s1 == [s0 EXCEPT !.is_ortho = CameraOrthographic(cam)]
        res == ResolveSelection(selection_raw)
        s2 == [s1 EXCEPT !.is_component_mode = res.is_component_mode,
                         !.selection = res.selection]
        s3 == [s2 EXCEPT !.scale_compensate = ScaleCompensate(mod, s.former_context),
                         !.initial_positions =
                             s2.initial_positions
                                 \o [i \in DOMAIN s2.selection |-> pos[s2.selection[i]]]]
        bbox_nodes ==
            IF s3.is_component_mode THEN s3.selection
            ELSE IF ListRelativesShapes(s3.selection) # << >>
                 THEN ListRelativesShapes(s3.selection)
                 ELSE s3.selection
        bbox == ExactWorldBoundingBox(bbox_nodes, pos, bboxFound)
    IN  IF panel = "" \/ PanelType(panel) # "modelPanel" THEN EarlyExit(s0)
        ELSE IF selection_raw = << >> THEN EarlyExit(s1)
        ELSE IF s2.selection = << >> THEN EarlyExit(s2)
        ELSE IF s3.initial_positions = << >> THEN EarlyExit(s3)
        ELSE IF s3.is_ortho THEN Arm(OrthoSetup(s3, cam), anchor)
        ELSE IF bbox = << >> THEN EarlyExit(s3)
        ELSE Arm(PerspSetup(s3, cam, bbox, scl), anchor)

\* Variant: the handler does not test is_ready.
DragActsAlways(s) == TRUE

\* on_drag, lines 172-173: the handler acts only on an armed session.
DragActs(s) == s.is_ready

\* Variant: the change measured from screen x = 0 instead of the anchor.
ChangeFromOrigin(s, drag_point) == RMul(R(drag_point[1]), SENSITIVITY)

\* on_drag, line 176.
Change(s, drag_point) == RMul(R(drag_point[1] - s.anchor_point[1]), SENSITIVITY)

\* Variant: the orthographic move vector without its factor 2.
OrthoMovesUndoubled(s, change) ==
    LET total_move_vector == VScale(s.view_direction, change)
    IN  [i \in DOMAIN s.selection |->
            [item |-> s.selection[i],
             pos |-> VAdd(s.initial_positions[i], total_move_vector)]]

\* on_drag, lines 179-182: the move calls of the orthographic branch.
OrthoMoves(s, change) ==
    LET total_move_vector == VScale(VScale(s.view_direction, change), R(2))
    IN  [i \in DOMAIN s.selection |->
            [item |-> s.selection[i],
             pos |-> VAdd(s.initial_positions[i], total_move_vector)]]

\* Variants: the offsets always, or never, scaled by the depth factor.
ScaleFactorAlways(s, change_depth) == change_depth
ScaleFactorNever(s, change_depth) == R(1)

\* on_drag, line 188.
ScaleFactor(s, change_depth) == IF s.scale_compensate THEN change_depth ELSE R(1)

\* on_drag, lines 184-191: the move calls of the perspective branch.
PerspMoves(s, change) ==
    LET change_depth == RAdd(R(1), change)
        new_avg_pos == VAdd(s.camera_pos, VScale(s.cam_to_avg_vec, change_depth))
    IN  [i \in DOMAIN s.selection |->
            [item |-> s.selection[i],
             pos |-> VAdd(new_avg_pos,
                          VScale(s.initial_vectors[i], ScaleFactor(s, change_depth)))]]

\* on_drag, lines 193-196: the scale calls of the perspective branch, in
\* target order.
RECURSIVE PerspScalesFrom(_, _, _)
PerspScalesFrom(s, change, i) ==
    IF i > Len(s.selection) THEN << >>
    ELSE LET item == s.selection[i]
             change_depth == RAdd(R(1), change)
             here == IF item \in DOMAIN s.initial_scales
                     THEN <<[item |-> item,
                             scale |-> VScale(s.initial_scales[item],
                                              ScaleFactor(s, change_depth))]>>
                     ELSE << >>
         IN  here \o PerspScalesFrom(s, change, i + 1)

PerspScales(s, change) == PerspScalesFrom(s, change, 1)

\* Variant: the drag point becomes the new anchor (an incremental drag).
OnDragStateMovesAnchor(s, drag_point) ==
    IF s.is_ready THEN [s EXCEPT !.anchor_point = drag_point] ELSE s

\* on_drag: the instance's fields when the handler returns; it assigns none.
OnDragState(s, drag_point) == s

\* on_drag: the host calls of one drag event.
OnDrag(s, drag_point) ==
    IF ~DragActs(s) THEN NoCalls
    ELSE LET change == Change(s, drag_point)
         IN  [opens |-> 0, closes |-> 0,
              moves |-> IF s.is_ortho THEN OrthoMoves(s, change) ELSE PerspMoves(s, change),
              scales |-> IF s.is_ortho THEN << >> ELSE PerspScales(s, change),
              refresh |-> 1]

\* The scene after cmds.move / cmds.scale calls, applied in call order.
RECURSIVE ApplyMoves(_, _)
ApplyMoves(pos, moves) ==
    IF moves = << >> THEN pos
    ELSE ApplyMoves([pos EXCEPT ![Head(moves).item] = Head(moves).pos], Tail(moves))

RECURSIVE ApplyScales(_, _)
ApplyScales(scl, scales) ==
    IF scales = << >> THEN scl
    ELSE ApplyScales([scl EXCEPT ![Head(scales).item.path] = Head(scales).scale],
                     Tail(scales))


\* Variant: the release closes the chunk and forgets to reset.
OnReleaseNoReset(s) == [state |-> s, closes |-> 1]

\* on_release: one closeChunk call, then _reset_state.
OnRelease(s) == [state |-> ResetState(s), closes |-> 1]

\* activate, lines 76-88, on the instance okPushyActivate found or made.
Activate(s, ctx) == [s EXCEPT !.former_context = ctx]

\* deactivate, lines 92-93: the tool the host is set to.
Deactivate(s, ctx) ==
    IF ctx = CONTEXT_NAME /\ s.former_context # "" THEN s.former_context ELSE ctx

(***************************************************************************)
(* The state machine.                                                      *)
(***************************************************************************)
InitState ==
    /\ ok_pushy_tool_instance = "None"
    /\ self = NewTool
    /\ currentCtx \in HostTools
    /\ ctxExists = FALSE
    /\ worldPos = InitialWorldPos
    /\ nodeScale = InitialScale
    /\ undoDepth = 0
    /\ calls = NoCalls
    /\ lastOp = "init"
    /\ locals = NoLocals
    /\ cycle = [opens |-> 0, closes |-> 0, phase |-> "none"]
    /\ nEvents = 0

Init == InitState /\ floatBits = 0

\* The same start on floats of MantissaBits significant bits.
InitFloat == InitState /\ floatBits = MantissaBits

\* okPushyActivate(): the hotkey is pressed.
OkPushyActivate ==
    /\ ok_pushy_tool_instance' = "OkPushyTool"
    /\ self' = Activate(IF ok_pushy_tool_instance = "None" THEN NewTool ELSE self,
                        currentCtx)
    /\ ctxExists' = TRUE
    /\ currentCtx' = CONTEXT_NAME
    /\ calls' = NoCalls
    /\ locals' = NoLocals
    /\ lastOp' = "activate"
    /\ UNCHANGED <<scene, undoDepth, cycle, nEvents, floatBits>>

\* okPushyDeactivate(): the hotkey is released.
OkPushyDeactivate ==
    /\ currentCtx' = IF ok_pushy_tool_instance = "None" THEN currentCtx
                     ELSE Deactivate(self, currentCtx)
    /\ calls' = NoCalls
    /\ locals' = NoLocals
    /\ lastOp' = "deactivate"
    /\ UNCHANGED <<ok_pushy_tool_instance, self, ctxExists, scene, undoDepth, cycle,
                   nEvents, floatBits>>

\* The host delivers mouse events to the tool while its context is current.
Delivers ==
    /\ ctxExists
    /\ currentCtx = CONTEXT_NAME
    /\ nEvents < MaxEvents

\* The host queries on_press reaches: the selection once the panel passed
\* (line 110), the modifier once targets were resolved (line 136), the
\* bounding box in the perspective branch (line 153).
AsksSelection(panel) == panel # "" /\ PanelType(panel) = "modelPanel"
AsksModifier(panel, selection_raw) ==
    AsksSelection(panel) /\ ResolveSelection(selection_raw).selection # << >>
AsksBoundingBox(panel, selection_raw) ==
    AsksModifier(panel, selection_raw) /\ ~CameraOrthographic(PanelCamera(panel))

\* pressCommand: the mouse button goes down.  The host's answers are drawn for
\* the queries the handler makes.
Press ==
    /\ Delivers
    /\ \E panel \in Panels :
       \E selection_raw \in (IF AsksSelection(panel) THEN Selections ELSE {<< >>}) :
       \E mod \in (IF AsksModifier(panel, selection_raw) THEN Modifiers ELSE {"none"}) :
       \E bboxFound \in (IF AsksBoundingBox(panel, selection_raw) THEN BOOLEAN ELSE {TRUE}) :
       \E ax \in AnchorXs, ay \in ScreenYs :
          LET r == OnPress(self, panel, selection_raw, mod, <<ax, ay>>, bboxFound,
                           worldPos, nodeScale)
          IN  /\ self' = r.state
              /\ undoDepth' = undoDepth + 1 - r.closes
              /\ calls' = [NoCalls EXCEPT !.opens = 1, !.closes = r.closes]
              /\ locals' = [NoLocals EXCEPT !.panel = panel,
                                            !.selection_raw = selection_raw]
              /\ cycle' = [opens |-> 1, closes |-> r.closes, phase |-> "pressed"]
    /\ lastOp' = "press"
    /\ nEvents' = nEvents + 1
    /\ UNCHANGED <<ok_pushy_tool_instance, currentCtx, ctxExists, scene, floatBits>>

\* dragCommand: the mouse moves to a drag point.
Drag ==
    /\ Delivers
    /\ \E dx \in DragXs, dy \in DragYs :
          LET c == OnDrag(self, <<dx, dy>>)
          IN  /\ self' = OnDragState(self, <<dx, dy>>)
              /\ locals' = [NoLocals EXCEPT
                               !.drag_point = IF DragActs(self) THEN <<dx, dy>> ELSE << >>]
              /\ calls' = c
              /\ worldPos' = ApplyMoves(worldPos, c.moves)
              /\ nodeScale' = ApplyScales(nodeScale, c.scales)
    /\ lastOp' = "drag"
    /\ nEvents' = nEvents + 1
    /\ UNCHANGED <<ok_pushy_tool_instance, currentCtx, ctxExists, undoDepth, cycle,
                   floatBits>>

\* releaseCommand: the mouse button goes up.
Release ==
    /\ Delivers
    /\ LET r == OnRelease(self)
       IN  /\ self' = r.state
           /\ undoDepth' = undoDepth - r.closes
           /\ calls' = [NoCalls EXCEPT !.closes = r.closes]
           /\ cycle' = IF cycle.phase = "pressed"
                       THEN [cycle EXCEPT !.closes = @ + r.closes, !.phase = "released"]
                       ELSE cycle
    /\ locals' = NoLocals
    /\ lastOp' = "release"
    /\ nEvents' = nEvents + 1
    /\ UNCHANGED <<ok_pushy_tool_instance, currentCtx, ctxExists, scene, floatBits>>

Next ==
    \/ OkPushyActivate
    \/ OkPushyDeactivate
    \/ Press
    \/ Drag
    \/ Release

Spec == Init /\ [][Next]_vars

SpecFloat == InitFloat /\ [][Next]_vars


(***************************************************************************)
(* Properties.                                                             *)
(***************************************************************************)
\* The step just taken was the named mouse handler.
PressReturned == lastOp = "press"
DragReturned == lastOp = "drag"
PressFailed == PressReturned /\ ~self.is_ready
DragStep == lastOp' = "drag" /\ nEvents' = nEvents + 1

\* C1: in every press -> drags -> release cycle, also when the press exits
\* early, exactly one openChunk and exactly one closeChunk call are issued.
C1_OneOpenOneClosePerCycle ==
    cycle.phase = "released" => (cycle.opens = 1 /\ cycle.closes = 1)

\* The press read the selection (the panel check passed) and it was empty.
EmptySelectionPress ==
    PressReturned /\ AsksSelection(locals.panel) /\ locals.selection_raw = << >>

\* C2 as stated: a press with an empty selection issues no openChunk call,
\* leaves ready false and issues no move or scale call.
C2_EmptySelectionOpensNothing ==
    EmptySelectionPress =>
        /\ calls.opens = 0
        /\ ~self.is_ready
        /\ calls.moves = << >>
        /\ calls.scales = << >>

\* C2 amended: a press with an empty selection leaves no transaction open: it
\* issues exactly one openChunk and one closeChunk call, leaves ready false
\* and issues no move or scale call.
C2_EmptySelectionLeavesNothingOpen ==
    EmptySelectionPress =>
        /\ calls.opens = 1
        /\ calls.closes = 1
        /\ ~self.is_ready
        /\ calls.moves = << >>
        /\ calls.scales = << >>

\* An empty-selection press received while the session was idle with no chunk
\* pending: the chunk nesting is back where it was.
C2_Witness == EmptySelectionPress /\ undoDepth = 0 /\ nEvents = 1

\* C3: a drag event received while ready is false issues no move, scale or
\* refresh call and changes neither the session fields nor the scene nor the
\* chunk nesting.
C3_IdleDragIsNoOp ==
    [][(DragStep /\ ~self.is_ready) =>
          /\ calls' = NoCalls
          /\ self' = self
          /\ worldPos' = worldPos
          /\ nodeScale' = nodeScale
          /\ undoDepth' = undoDepth]_vars

\* A drag that arrived after a press that failed validation and left fields set.
C3_Witness ==
    /\ DragReturned
    /\ ~self.is_ready
    /\ cycle.phase = "pressed"
    /\ self.selection # << >>
    /\ calls = NoCalls

\* C4: when on_press exits on a validation failure, ready is false and every
\* per-drag field has the value _reset_state gives it.
C4_FailedPressLeavesResetState ==
    PressFailed => self = ResetState(self)


\* The targets as a set, and the vertices the raw selection touches.
Targets == {self.selection[i] : i \in DOMAIN self.selection}
TouchedVertices(items) == UNION {VerticesOf(items[k]) : k \in DOMAIN items}
HasFaceOrEdge(items) == \E k \in DOMAIN items : IsFaceOrEdge(items[k])

\* C5: after a successful press on a selection holding a face or an edge, the
\* targets are vertex identifiers only, none twice, and they are exactly the
\* distinct vertices the whole raw selection touches.
C5_FaceEdgeSelectionBecomesVertices ==
    (PressReturned /\ self.is_ready /\ HasFaceOrEdge(locals.selection_raw)) =>
        /\ \A i \in DOMAIN self.selection : self.selection[i].suffix = ".vtx["
        /\ \A i, j \in DOMAIN self.selection :
              i # j => self.selection[i] # self.selection[j]
        /\ Len(self.selection) = Cardinality(TouchedVertices(locals.selection_raw))
        /\ Targets = {Vtx(v) : v \in TouchedVertices(locals.selection_raw)}

\* A vertex mixed with an edge that does not hold it: three distinct vertices.
C5_Witness ==
    /\ PressReturned
    /\ self.is_ready
    /\ locals.selection_raw = <<Vtx(3), Edge(0)>>
    /\ Len(self.selection) = 3

\* C6 as stated: in an armed session initialScales has an entry for every
\* target when compensation is requested in object mode, whatever the camera,
\* and is empty otherwise.
C6_ScalesSnapshotForEveryCamera ==
    self.is_ready =>
        IF self.scale_compensate /\ ~self.is_component_mode
        THEN DOMAIN self.initial_scales = Targets
        ELSE self.initial_scales = << >>

\* C6 amended: initialScales has an entry for every target (the target's scale
\* at press time) when compensation is requested in object mode under a
\* perspective camera; it is empty in component mode, without compensation,
\* and under an orthographic camera.
C6_ScalesSnapshotInPerspective ==
    self.is_ready =>
        IF self.scale_compensate /\ ~self.is_component_mode /\ ~self.is_ortho
        THEN /\ DOMAIN self.initial_scales = Targets
             /\ PressReturned =>
                   \A item \in Targets : self.initial_scales[item] = nodeScale[item.path]
        ELSE self.initial_scales = << >>

\* Armed under the orthographic camera, compensating, in object mode.
C6_Witness ==
    /\ self.is_ready
    /\ self.is_ortho
    /\ self.scale_compensate
    /\ ~self.is_component_mode
    /\ Len(self.selection) = 2
    /\ self.initial_scales = << >>

\* C7: in an armed session every target is a component identifier in
\* component mode and a transform node in object mode.
C7_TargetsMatchMode ==
    self.is_ready =>
        \A i \in DOMAIN self.selection :
            IF self.is_component_mode
            THEN HasDot(self.selection[i])
            ELSE IsTransform(self.selection[i])

\* The drag delta of the drag that just returned, from the points themselves.
Delta == Rat(locals.drag_point[1] - self.anchor_point[1], 200)
DepthFactor == RAdd(R(1), Delta)
NewCentroid == VAdd(self.camera_pos, VScale(self.cam_to_avg_vec, DepthFactor))
ArmedDrag == DragReturned /\ self.is_ready
MovesAllTargets ==
    /\ Len(calls.moves) = Len(self.selection)
    /\ \A i \in DOMAIN self.selection : calls.moves[i].item = self.selection[i]

\* C8: a perspective drag without scale compensation moves target i to
\* newCentroid + initialVectors[i], newCentroid = cameraPos + camToAvgVec *
\* (1 + d), for every d, negative depth factors included: the offsets between
\* targets stay those of press time.  Vertices (2,0,0), (0,0,0) seen from
\* (0,0,10) with d = 1/2 go to (5/2,0,-5), (1/2,0,-5).
C8_PerspectiveDragKeepsOffsets ==
    (ArmedDrag /\ ~self.is_ortho /\ ~self.scale_compensate) =>
        /\ MovesAllTargets
        /\ \A i \in DOMAIN self.selection :
              calls.moves[i].pos = VAdd(NewCentroid, self.initial_vectors[i])
        /\ \A i, j \in DOMAIN self.selection :
              VSub(calls.moves[i].pos, calls.moves[j].pos)
                  = VSub(self.initial_positions[i], self.initial_positions[j])
        /\ (/\ self.initial_positions = <<Vec(2, 0, 0), Vec(0, 0, 0)>>
            /\ self.camera_pos = Vec(0, 0, 10)
            /\ Delta = <<1, 2>>)
           => /\ calls.moves[1].pos = <<<<5, 2>>, R(0), R(-5)>>
              /\ calls.moves[2].pos = <<<<1, 2>>, R(0), R(-5)>>

\* Two targets dragged past the camera: d = -2, depth factor -1.
C8_Witness ==
    /\ ArmedDrag
    /\ ~self.is_ortho
    /\ ~self.scale_compensate
    /\ Len(self.selection) = 2
    /\ RLess(DepthFactor, R(0))
    /\ calls.moves[1].pos # calls.moves[2].pos

\* The scale calls for the targets that have a recorded scale, in target order.
RecordedTargets == SelectSeq(self.selection, LAMBDA item : item \in DOMAIN self.initial_scales)

\* C9: a perspective drag with scale compensation moves target i to
\* newCentroid + initialVectors[i] * depthFactor and issues, for exactly the
\* targets with a recorded scale, one scale call with initialScale *
\* depthFactor.
C9_PerspectiveDragCompensates ==
    (ArmedDrag /\ ~self.is_ortho /\ self.scale_compensate) =>
        /\ MovesAllTargets
        /\ \A i \in DOMAIN self.selection :
              calls.moves[i].pos
                  = VAdd(NewCentroid, VScale(self.initial_vectors[i], DepthFactor))
        /\ Len(calls.scales) = Len(RecordedTargets)
        /\ \A k \in DOMAIN calls.scales :
              /\ calls.scales[k].item = RecordedTargets[k]
              /\ calls.scales[k].scale
                    = VScale(self.initial_scales[RecordedTargets[k]], DepthFactor)

\* Two transforms with recorded scales dragged with d = 1/2.
C9_Witness ==
    /\ ArmedDrag
    /\ ~self.is_ortho
    /\ self.scale_compensate
    /\ Len(calls.scales) = 2
    /\ DepthFactor = <<3, 2>>

\* C10: an orthographic drag moves every target by the same vector,
\* viewDirection * d * 2 from its initial position, and issues no scale call.
C10_OrthographicDragTranslates ==
    (ArmedDrag /\ self.is_ortho) =>
        /\ MovesAllTargets
        /\ \A i \in DOMAIN self.selection :
              calls.moves[i].pos
                  = VAdd(self.initial_positions[i],
                         VScale(self.view_direction, RMul(Delta, R(2))))
        /\ \A i, j \in DOMAIN self.selection :
              VSub(calls.moves[i].pos, self.initial_positions[i])
                  = VSub(calls.moves[j].pos, self.initial_positions[j])
        /\ calls.scales = << >>

\* Two compensating transforms dragged under the orthographic camera.
C10_Witness ==
    /\ ArmedDrag
    /\ self.is_ortho
    /\ self.scale_compensate
    /\ ~self.is_component_mode
    /\ Len(calls.moves) = 2
    /\ Delta # R(0)
    /\ self.view_direction = Vec(-1, 0, 0)


\* C11: after a successful press on a selection of vertex identifiers only,
\* the targets are that selection: same elements, same order.
C11_VertexSelectionUnchanged ==
    (/\ PressReturned
     /\ self.is_ready
     /\ \A k \in DOMAIN locals.selection_raw : locals.selection_raw[k].suffix = ".vtx[")
        => self.selection = locals.selection_raw

\* Two vertices selected in descending index order.
C11_Witness ==
    /\ PressReturned
    /\ self.is_ready
    /\ locals.selection_raw = <<Vtx(1), Vtx(0)>>
    /\ self.selection = <<Vtx(1), Vtx(0)>>

\* The instance as __init__ leaves it, apart from former_context.
FreshTool(s) == [NewTool EXCEPT !.former_context = s.former_context]
IdleShape(s) == s = FreshTool(s)
PressStep == lastOp' = "press" /\ nEvents' = nEvents + 1
ReleaseStep == lastOp' = "release" /\ nEvents' = nEvents + 1

\* C12: every release leaves the session in the cleared idle shape, and a
\* release that follows a release leaves the session fields as they were.
C12_ReleaseIsIdempotent ==
    [][ReleaseStep =>
          /\ IdleShape(self)'
          /\ lastOp = "release" => self' = self]_vars

\* Two releases in a row, no press before them.
C12_Witness ==
    /\ lastOp = "release"
    /\ nEvents = 2
    /\ undoDepth = -2
    /\ IdleShape(self)

\* C13: for any order of events the number of openChunk calls minus the number
\* of closeChunk calls never exceeds 1 and is not positive after a release.
C13_ChunkNeverLeftOpen ==
    /\ undoDepth <= 1
    /\ lastOp = "release" => undoDepth <= 0

\* C14: every move or scale call of a drag is issued with strictly more
\* openChunk than closeChunk calls made so far, and the drag itself opens and
\* closes nothing.
C14_MutationsInsideOpenChunk ==
    (DragReturned /\ (calls.moves # << >> \/ calls.scales # << >>)) =>
        /\ undoDepth > 0
        /\ calls.opens = 0
        /\ calls.closes = 0

\* C15: the session fields after a press, whatever the session held before
\* (an armed session included), are those the same press gives on a fresh
\* instance: nothing of the previous session survives.
C15_PressStartsFromFreshState ==
    [][PressStep =>
          \E mod \in Modifiers, bboxFound \in BOOLEAN, ax \in AnchorXs, ay \in ScreenYs :
              self' = OnPress(FreshTool(self), locals'.panel, locals'.selection_raw,
                              mod, <<ax, ay>>, bboxFound, worldPos, nodeScale).state]_vars

\* A press that armed the session while the previous press's chunk was open.
C15_Witness ==
    /\ PressReturned
    /\ self.is_ready
    /\ nEvents = 2
    /\ undoDepth = 2

\* C16: in an armed session initialPositions is as long as targets, so is
\* initialVectors under a perspective camera, and every key of initialScales
\* is a target.
C16_ArraysMatchTargets ==
    self.is_ready =>
        /\ Len(self.initial_positions) = Len(self.selection)
        /\ ~self.is_ortho => Len(self.initial_vectors) = Len(self.selection)
        /\ DOMAIN self.initial_scales \subseteq Targets

\* Re-armed in perspective on three targets while a chunk was already open.
C16_Witness ==
    /\ self.is_ready
    /\ ~self.is_ortho
    /\ Len(self.initial_vectors) = 3
    /\ undoDepth = 2

\* C17: after okPushyDeactivate() the session is idle and no chunk opened at
\* press is still open.
C17_DeactivateEndsDrag ==
    lastOp = "deactivate" => (~self.is_ready /\ undoDepth <= 0)

\* C18: after one or more okPushyActivate() calls followed by
\* okPushyDeactivate(), the host's current context is a host tool, not the
\* tool's own dragger context.
C18_DeactivateRestoresHostTool ==
    (lastOp = "deactivate" /\ ok_pushy_tool_instance # "None") =>
        currentCtx \in HostTools

\* The per-drag fields of the instance.
PerDrag(s) == [s EXCEPT !.former_context = ""]

\* C19: a drag on an armed session changes no field of the instance, and no
\* step other than a press or a release changes a per-drag field.
C19_DragLeavesSnapshot ==
    [][/\ (DragStep /\ self.is_ready) => self' = self
       /\ lastOp' \notin {"press", "release"} => PerDrag(self') = PerDrag(self)]_vars

\* A second drag of a component-mode session that moved three vertices.
C19_Witness ==
    /\ ArmedDrag
    /\ nEvents = 3
    /\ self.is_component_mode
    /\ Len(calls.moves) = 3
    /\ calls.refresh = 1

\* A drag on an armed session whose screen x is the anchor's.
AnchorDrag == ArmedDrag /\ locals.drag_point[1] = self.anchor_point[1]

\* One scale call per target with a recorded scale, carrying that scale.
ScalesAreInitial ==
    /\ Len(calls.scales) = Len(RecordedTargets)
    /\ \A k \in DOMAIN calls.scales :
          /\ calls.scales[k].item = RecordedTargets[k]
          /\ calls.scales[k].scale = self.initial_scales[RecordedTargets[k]]

\* C20 as stated: after any sequence of drags, a drag whose x equals the
\* anchor's x applies to every target exactly its initial position and, where
\* one was recorded, its initial scale, in both camera modes.
C20_AnchorDragRestoresExactly ==
    AnchorDrag =>
        /\ MovesAllTargets
        /\ \A i \in DOMAIN self.selection :
              calls.moves[i].pos = self.initial_positions[i]
        /\ ScalesAreInitial

\* C20 amended: two successive drags of one session with the same x issue the
\* same calls whatever their y and whatever the scene has become; a drag
\* whose x equals the anchor's x applies every recorded initial scale exactly,
\* the initial position exactly in orthographic mode, and in perspective mode
\* the float sum (cameraPos + camToAvgVec) + initialVectors[i], which is the
\* initial position when the arithmetic is exact.
C20_AnchorDragRestores ==
    /\ [](AnchorDrag =>
            /\ MovesAllTargets
            /\ ScalesAreInitial
            /\ \A i \in DOMAIN self.selection :
                  /\ self.is_ortho => calls.moves[i].pos = self.initial_positions[i]
                  /\ ~self.is_ortho =>
                        calls.moves[i].pos
                            = VAdd(VAdd(self.camera_pos, self.cam_to_avg_vec),
                                   self.initial_vectors[i])
                  /\ floatBits = 0 => calls.moves[i].pos = self.initial_positions[i])
    /\ [][(DragStep /\ ArmedDrag /\ locals'.drag_point[1] = locals.drag_point[1]) =>
              (calls'.moves = calls.moves /\ calls'.scales = calls.scales)]_vars

\* A third event, a perspective drag back to the anchor's x, whose float
\* sum misses the initial position of a target.
C20_Witness ==
    /\ AnchorDrag
    /\ nEvents = 3
    /\ ~self.is_ortho
    /\ \E i \in DOMAIN self.selection :
          calls.moves[i].pos # self.initial_positions[i]

====
